---- MODULE Spec2Model ----
(***************************************************************************)
(* Notification scheduling and delivery pipeline of the license manager:   *)
(* backend/services/scheduler.js (per-user cron tasks), the PUT            *)
(* /notifications handler of backend/routes/settings.js, and the           *)
(* processLicenseExpirations pipeline of backend/services/emailService.js  *)
(* (with its second variant, unnamed/part_011), the GET /notifications and *)
(* GET /test-email handlers of backend/routes/settings.js, and the         *)
(* NotificationJob of unnamed/part_006.                                    *)
(*                                                                         *)
(* Every await of the JavaScript code is a step boundary: the code between *)
(* two awaits runs atomically (one event-loop turn), the database executes *)
(* a query at the step that issues it, and the continuation that uses the  *)
(* result is a later step, so other handlers interleave in between.        *)
(***************************************************************************)
EXTENDS Integers, Sequences, FiniteSets, TLC

(* ------------------------------ bounds -------------------------------- *)
MaxUsers == 2
MaxReq == 2
MaxInit == 2
MaxTasks == 4
MaxRuns == 2
MaxFires == 1
MaxFaults == 1
MaxRejects == 1
MaxLicenses == 2
TicksPerDay == 2
MaxTests == 2
MaxGets == 2
MaxStarts == 2
MaxSweeps == 2

(* --------------------------- program constants ------------------------ *)
NoUser == 0
MinDays == 1
MaxDays == 365
DefaultDays == 7
JobDays == 7

UserIds == 1..MaxUsers
LicenseIds == 1..MaxLicenses

\* 'HH:MM' strings of a request body
Morning == [h |-> 9, m |-> 0]
Evening == [h |-> 18, m |-> 30]
\* <<daysBeforeExpiration, notificationTime, includeInactive>> of a request body
Profiles == {<<DefaultDays, Morning, FALSE>>, <<30, Evening, TRUE>>}
\* <<sendToEmail, emailAddress>> of a request body ("" stands for null or empty)
Deliveries == {<<TRUE, "ops@x.com">>, <<FALSE, "">>}

VARIABLES
    users,        \* table users: id -> [email]
    settings,     \* table user_notification_settings: user_id -> row (UNIQUE(user_id))
    licenses,     \* table licenses: id -> [expiration_date, is_active, notification_sent]
    adminEmail,   \* process.env.ADMIN_EMAIL ("" when unset)
    variant,      \* which emailService source is loaded
    tod,          \* time of day of new Date(), in ticks since midnight
    tasks,        \* every cron task created so far, in creation order
    activeTasks,  \* the Map activeTasks: user id -> index into tasks
    reqs,         \* PUT /notifications requests
    inits,        \* initScheduler calls
    runs,         \* processLicenseExpirations calls
    licensesByRecipient, \* per call of processLicenseExpirations: its Map of digests
    outbox,       \* transporter.sendMail calls, in call order
    faults,       \* database failures injected so far
    rejected,     \* messages the transport has rejected so far
    lastStore,    \* per user: the request whose write of the settings row was the last
    tests,        \* GET /test-email requests
    gets,         \* GET /notifications requests
    notificationJob, \* the singleton of NotificationJob: which class, and this.job
    cronJobs,     \* every job cron.schedule has returned to NotificationJob.start
    starts,       \* calls of notificationJob.start()
    sweeps,       \* callbacks of NotificationJob: the cron callback and the nextTick one
    settingsCount \* per user id: the number of rows of user_notification_settings

vars == <<users, settings, licenses, adminEmail, variant, tod, tasks, activeTasks,
          reqs, inits, runs, licensesByRecipient, outbox, faults, rejected, lastStore,
          tests, gets, notificationJob, cronJobs, starts, sweeps, settingsCount>>

dbVars == <<users, settings, licenses, settingsCount>>
apiVars == <<tests, gets>>
jobVars == <<notificationJob, cronJobs, starts, sweeps>>
envVars == <<adminEmail, variant, tod, apiVars, jobVars>>
frameVars == <<adminEmail, variant, tod, rejected, apiVars, jobVars>>
schedVars == <<tasks, activeTasks>>

(* ------------------------------ helpers ------------------------------- *)
Truthy(s) == s # ""

Range(s) == {s[i] : i \in DOMAIN s}

RemoveKey(f, k) == [x \in DOMAIN f \ {k} |-> f[x]]

\* the awaited database call fails (bounded by MaxFaults) or succeeds
Fails == faults < MaxFaults /\ faults' = faults + 1
Succeeds == faults' = faults

(* ------------------------ settings table, types ----------------------- *)
\* TIME column: 'HH:MM' is stored and read back as 'HH:MM:SS'
TimeColumn(t) == [h |-> t.h, m |-> t.m, s |-> 0]

\* String.prototype.split(':') of the value read from the TIME column
Split(t) == <<t.h, t.m, t.s>>

\* node-cron validation of `${minutes} ${hours} * * *`
ValidCron(minutes, hours) == minutes \in 0..59 /\ hours \in 0..23

SettingsRow(body) ==
    [days_before_expiration |-> body.daysBeforeExpiration,
     send_to_email |-> body.sendToEmail,
     notification_time |-> TimeColumn(body.notificationTime),
     email_address |-> body.emailAddress,
     include_inactive |-> body.includeInactive]

Body(days, time, send, email, incl) ==
    [daysBeforeExpiration |-> days, notificationTime |-> time, sendToEmail |-> send,
     emailAddress |-> email, includeInactive |-> incl]

\* the request bodies tried: two valid schedules, each enabled or disabled,
\* and the two kinds of body the validation rejects
Bodies ==
    {Body(p[1], p[2], d[1], d[2], p[3]) : p \in Profiles, d \in Deliveries}
    \cup {Body(0, Morning, TRUE, "ops@x.com", FALSE), Body(DefaultDays, Morning, TRUE, "", FALSE)}

\* /^\S+@\S+\.\S+$/.test(emailAddress)
EmailRegexMatches(e) == e \notin {"", "not-an-address"}

\* validation of the request body
ValidBody(body) ==
    /\ ~(body.daysBeforeExpiration = 0
         \/ body.daysBeforeExpiration < MinDays
         \/ body.daysBeforeExpiration > MaxDays)
    /\ ~(body.sendToEmail /\ ~EmailRegexMatches(body.emailAddress))

\* the row object the scheduler's queries return for user u
UserRow(u) ==
    [id |-> u,
     notification_time |-> settings[u].notification_time,
     days_before_expiration |-> settings[u].days_before_expiration,
     include_inactive |-> settings[u].include_inactive]

\* rows of: users JOIN user_notification_settings WHERE send_to_email = true
EnabledUsers == {u \in DOMAIN settings \cap DOMAIN users : settings[u].send_to_email}

RECURSIVE RowsOf(_)
RowsOf(S) ==
    IF S = {} THEN <<>>
    ELSE LET u == CHOOSE x \in S : \A y \in S : x <= y
         IN <<UserRow(u)>> \o RowsOf(S \ {u})

(* ----------------------------- scheduler ------------------------------ *)
StopTask(ts, i) == [ts EXCEPT ![i].running = FALSE]

NewTask(user, hours, minutes) ==
    [user |-> user, cron |-> <<minutes, hours>>, running |-> TRUE]

\* scheduleUserNotifications without the stop of the task it replaces
scheduleNoStop(st, user) ==
    LET at1 == RemoveKey(st.activeTasks, user.id)
        parts == Split(user.notification_time)
    IN [tasks |-> Append(st.tasks, NewTask(user, parts[1], parts[2])),
        activeTasks |-> at1 @@ (user.id :> Len(st.tasks) + 1)]

\* scheduleUserNotifications(user) on the scheduler state st = [tasks, activeTasks]
scheduleUserNotifications(st, user) ==
    LET ts1 == IF user.id \in DOMAIN st.activeTasks
               THEN StopTask(st.tasks, st.activeTasks[user.id])
               ELSE st.tasks
        at1 == RemoveKey(st.activeTasks, user.id)
        parts == Split(user.notification_time)
        hours == parts[1]
        minutes == parts[2]
    IN IF ValidCron(minutes, hours)
       THEN [tasks |-> Append(ts1, NewTask(user, hours, minutes)),
             activeTasks |-> at1 @@ (user.id :> Len(ts1) + 1)]
       ELSE [tasks |-> ts1, activeTasks |-> at1]

\* the else branch of updateUserSchedule: cancel the user's task, if any
cancelUserSchedule(st, userId) ==
    IF userId \in DOMAIN st.activeTasks
    THEN [tasks |-> StopTask(st.tasks, st.activeTasks[userId]),
          activeTasks |-> RemoveKey(st.activeTasks, userId)]
    ELSE st

\* a clear that forgets the tasks without stopping them
clearNoStop(st) == [tasks |-> st.tasks, activeTasks |-> <<>>]

\* activeTasks.forEach(task => task.stop()); activeTasks.clear()
clearAllTasks(st) ==
    [tasks |-> [i \in DOMAIN st.tasks |->
                   IF i \in Range(st.activeTasks)
                   THEN [st.tasks[i] EXCEPT !.running = FALSE]
                   ELSE st.tasks[i]],
     activeTasks |-> <<>>]

\* users.forEach(user => scheduleUserNotifications(user))
RECURSIVE scheduleAll(_, _)
scheduleAll(st, rows) ==
    IF rows = <<>> THEN st
    ELSE scheduleAll(scheduleUserNotifications(st, Head(rows)), Tail(rows))

SchedState == [tasks |-> tasks, activeTasks |-> activeTasks]

SetSched(st) == tasks' = st.tasks /\ activeTasks' = st.activeTasks

(* ------------------------ expiring-license selector ------------------- *)
\* Math.floor in the place of Math.ceil
FloorDiv(a, b) == a \div b

\* Math.ceil(a / b) for b > 0
CeilDiv(a, b) == -((-a) \div b)

\* Math.ceil((expiryDate.getTime() - today.getTime()) / (1000 * 3600 * 24)):
\* expiration_date is a DATE (midnight), counted in days from the current date
daysUntilExpiry(l) ==
    CeilDiv(licenses[l].expiration_date * TicksPerDay - tod, TicksPerDay)

Abs(n) == IF n < 0 THEN -n ELSE n

\* the WHERE clause without the upper end of BETWEEN
SelectedCurrentNoUpper(l, daysAhead, includeInactive) ==
    /\ licenses[l].expiration_date >= 0
    /\ licenses[l].is_active

\* WHERE clause of getExpiringLicenses in backend/services/emailService.js
SelectedCurrent(l, daysAhead, includeInactive) ==
    /\ licenses[l].expiration_date >= 0
    /\ licenses[l].expiration_date <= daysAhead
    /\ licenses[l].is_active

\* the WHERE clause without the is_active filter
SelectedWindowNoFilter(l, daysAhead, includeInactive) ==
    \/ /\ licenses[l].expiration_date >= -daysAhead
       /\ licenses[l].expiration_date <= daysAhead
    \/ licenses[l].expiration_date < 0

\* WHERE clause of getExpiringLicenses in unnamed/part_011
SelectedWindow(l, daysAhead, includeInactive) ==
    /\ \/ /\ licenses[l].expiration_date >= -daysAhead
          /\ licenses[l].expiration_date <= daysAhead
       \/ licenses[l].expiration_date < 0
    /\ (includeInactive \/ licenses[l].is_active)

\* ORDER BY of the two variants, ties in the order of the ids
Before(a, b) ==
    LET da == licenses[a].expiration_date
        db == licenses[b].expiration_date
        pa == IF da < 0 THEN 0 ELSE 1
        pb == IF db < 0 THEN 0 ELSE 1
    IN IF variant = "emailService"
       THEN da < db \/ (da = db /\ a < b)
       ELSE \/ pa < pb
            \/ (pa = pb /\ Abs(da) < Abs(db))
            \/ (pa = pb /\ Abs(da) = Abs(db) /\ a < b)

RECURSIVE Sorted(_)
Sorted(S) ==
    IF S = {} THEN <<>>
    ELSE LET first == CHOOSE x \in S : \A y \in S \ {x} : Before(x, y)
         IN <<first>> \o Sorted(S \ {first})

\* a selector that leaves out the licenses already notified
getExpiringLicensesUnsent(daysAhead, includeInactive) ==
    Sorted({l \in DOMAIN licenses :
              /\ ~licenses[l].notification_sent
              /\ IF variant = "emailService"
                 THEN SelectedCurrent(l, daysAhead, includeInactive)
                 ELSE SelectedWindow(l, daysAhead, includeInactive)})

\* result.rows of getExpiringLicenses(daysAhead, includeInactive)
getExpiringLicenses(daysAhead, includeInactive) ==
    Sorted({l \in DOMAIN licenses :
              IF variant = "emailService"
              THEN SelectedCurrent(l, daysAhead, includeInactive)
              ELSE SelectedWindow(l, daysAhead, includeInactive)})

(* ------------------------- recipient grouping ------------------------- *)
\* a grouping that never finds the recipient's entry
AddLicenseNoGroup(g, recipient, userEmail, item) ==
    Append(g, [email |-> recipient, userEmail |-> userEmail, licenses |-> <<item>>])

\* a grouping that replaces the recipient's list by the new license
AddLicenseOverwrite(g, recipient, userEmail, item) ==
    IF \E i \in DOMAIN g : g[i].email = recipient
    THEN LET i == CHOOSE j \in DOMAIN g : g[j].email = recipient
         IN [g EXCEPT ![i].licenses = <<item>>]
    ELSE Append(g, [email |-> recipient, userEmail |-> userEmail, licenses |-> <<item>>])

\* licensesByRecipient.has / set / get(recipient).licenses.push
AddLicense(g, recipient, userEmail, item) ==
    IF \E i \in DOMAIN g : g[i].email = recipient
    THEN LET i == CHOOSE j \in DOMAIN g : g[j].email = recipient
         IN [g EXCEPT ![i].licenses = Append(@, item)]
    ELSE Append(g, [email |-> recipient, userEmail |-> userEmail, licenses |-> <<item>>])

\* one Map at module level, shared by all calls
MapOfShared(k) == 1

\* the Map a call of processLicenseExpirations groups into: its own,
\* const licensesByRecipient = new Map() inside the call
MapOf(k) == k

\* the rest of the loop body for the current license, once its recipient is known
GroupCurrent(r, g, recipient, userEmail) ==
    LET l == r.expiring[r.idx]
        g1 == IF Truthy(recipient)
              THEN AddLicense(g, recipient, userEmail,
                              [license |-> l, daysUntilExpiry |-> daysUntilExpiry(l)])
              ELSE g
        r1 == [r EXCEPT !.idx = @ + 1,
                        !.resolved = IF Truthy(recipient) THEN @ \cup {<<l, recipient>>} ELSE @,
                        !.skipped = IF Truthy(recipient) THEN @ ELSE @ \cup {l}]
    IN [r |-> r1, g |-> g1]

\* from the top of the grouping loop to the next await
RECURSIVE GroupLoop(_, _)
GroupLoop(r, g) ==
    IF r.idx > Len(r.expiring)
    THEN \* the send loop: sendMail of the first digest is awaited, or the call returns
         IF g = <<>>
         THEN [r |-> [r EXCEPT !.pc = "done", !.result = "ok"], g |-> g]
         ELSE [r |-> [r EXCEPT !.pc = "send", !.gi = 1], g |-> g]
    ELSE IF r.userId # NoUser
         THEN [r |-> [r EXCEPT !.pc = "settings"], g |-> g]
         ELSE LET n == GroupCurrent(r, g, adminEmail, "")
              IN GroupLoop(n.r, n.g)

\* the send loop after the digest r.gi is finished: the next sendMail is
\* awaited, or the call returns { success: true, count }
NextDigest(r, g) ==
    IF r.gi < Len(g)
    THEN [r EXCEPT !.pc = "send", !.gi = @ + 1]
    ELSE [r EXCEPT !.pc = "done", !.result = "ok"]

\* a send loop whose catch lets the error reach the outer catch
onSendErrorAborts(r, g) == [r EXCEPT !.pc = "done", !.result = "failed"]

\* catch (error) of the send loop: logged, the loop goes on
onSendError(r, g) == NextDigest(r, g)

\* a marking loop that a failed update leaves, as a failed send
afterMarkAborts(r, g, items, ok) ==
    IF ~ok THEN NextDigest(r, g)
    ELSE IF r.mi < Len(items)
         THEN [r EXCEPT !.mi = @ + 1]
         ELSE NextDigest([r EXCEPT !.count = @ + Len(items)], g)

\* the marking loop after one markLicenseAsNotified, failed (caught) or not;
\* after the last one: return true, and notificationCount += licenses.length
afterMark(r, g, items, ok) ==
    IF r.mi < Len(items)
    THEN [r EXCEPT !.mi = @ + 1]
    ELSE NextDigest([r EXCEPT !.count = @ + Len(items)], g)

(* ------------------------- digest composition ------------------------- *)
\* position at which item x goes into the sorted list srt:
\* [...licenses].sort((a, b) => a.daysUntilExpiry - b.daysUntilExpiry), stable
RECURSIVE InsertByDays(_, _)
InsertByDays(srt, x) ==
    IF srt = <<>> THEN <<x>>
    ELSE IF x.daysUntilExpiry < Head(srt).daysUntilExpiry
         THEN <<x>> \o srt
         ELSE <<Head(srt)>> \o InsertByDays(Tail(srt), x)

\* the items in the reverse of the order in which they were given
itemsReversed(items) ==
    [i \in 1..Len(items) |-> items[Len(items) + 1 - i]]

RECURSIVE sortedLicenses(_)
sortedLicenses(items) ==
    IF items = <<>> THEN <<>>
    ELSE InsertByDays(sortedLicenses(SubSeq(items, 1, Len(items) - 1)), items[Len(items)])

\* the row of the single table of backend/services/emailService.js:
\* `Expired ${-daysUntilExpiry} days ago` or `${daysUntilExpiry} days`
RowCurrent(x) ==
    IF x.daysUntilExpiry < 0
    THEN [license |-> x.license, text |-> "Expired ago", days |-> -x.daysUntilExpiry]
    ELSE [license |-> x.license, text |-> "days", days |-> x.daysUntilExpiry]

\* the rows of the two tables of unnamed/part_011:
\* `${Math.abs(days_until_expiry)} days ago` and `in ${days_until_expiry} days`
RowExpired(x) == [license |-> x.license, text |-> "ago", days |-> Abs(x.daysUntilExpiry)]
RowExpiring(x) == [license |-> x.license, text |-> "in", days |-> x.daysUntilExpiry]

\* the html of the message, as its sequence of tables, each under its heading
Html(items) ==
    LET srt == sortedLicenses(items)
        expiredLicenses == SelectSeq(srt, LAMBDA x : x.daysUntilExpiry < 0)
        expiringLicenses == SelectSeq(srt, LAMBDA x : x.daysUntilExpiry >= 0)
    IN IF variant = "emailService"
       THEN <<[heading |-> "expiring soon", rows |-> [i \in DOMAIN srt |-> RowCurrent(srt[i])]]>>
       ELSE (IF Len(expiredLicenses) > 0
             THEN <<[heading |-> "Expired Licenses",
                     rows |-> [i \in DOMAIN expiredLicenses |->
                                 RowExpired(expiredLicenses[i])]]>>
             ELSE <<>>)
            \o (IF Len(expiringLicenses) > 0
                THEN <<[heading |-> "Expiring Soon",
                        rows |-> [i \in DOMAIN expiringLicenses |->
                                    RowExpiring(expiringLicenses[i])]]>>
                ELSE <<>>)

NewRun(task, daysAhead, includeInactive, userId) ==
    [pc |-> "select", task |-> task, daysAhead |-> daysAhead,
     includeInactive |-> includeInactive, userId |-> userId,
     expiring |-> <<>>, idx |-> 1, gi |-> 0, mi |-> 0, ob |-> 0, count |-> 0,
     resolved |-> {}, skipped |-> {}, sentBefore |-> {}, result |-> ""]

(* --------------------- PUT /notifications handler --------------------- *)
\* history: an initScheduler call in flight has seen a settings change
Dirty(is) ==
    [i \in DOMAIN is |->
        IF is[i].pc \in {"query", "apply"} THEN [is[i] EXCEPT !.clean = FALSE] ELSE is[i]]

IdleReq ==
    [pc |-> "idle", user |-> NoUser, body |-> CHOOSE b \in Bodies : TRUE,
     existing |-> FALSE, rows |-> <<>>, status |-> 0]

Respond(r, code) ==
    [reqs EXCEPT ![r] = [IdleReq EXCEPT !.pc = "done", !.user = reqs[r].user, !.status = code]]

\* the request arrives (authenticated as user u): validation, then the
\* SELECT of the existing row is issued
PutReceive(r, u, body) ==
    /\ reqs[r].pc = "idle"
    /\ \A q \in 1..(r - 1) : reqs[q].pc # "idle"
    /\ u \in DOMAIN users
    /\ reqs' = IF ValidBody(body)
               THEN [reqs EXCEPT ![r].pc = "select", ![r].user = u, ![r].body = body]
               ELSE [reqs EXCEPT ![r].pc = "done", ![r].user = u, ![r].status = 400]
    /\ UNCHANGED <<dbVars, frameVars, schedVars, inits, runs, licensesByRecipient,
                   outbox, faults, lastStore>>

\* SELECT * FROM user_notification_settings WHERE user_id = $1
PutSelect(r) ==
    /\ reqs[r].pc = "select"
    /\ \/ /\ Succeeds
          /\ reqs' = [reqs EXCEPT ![r].pc = "write",
                                  ![r].existing = (reqs[r].user \in DOMAIN settings)]
       \/ /\ Fails
          /\ reqs' = Respond(r, 500)
    /\ UNCHANGED <<dbVars, frameVars, schedVars, inits, runs, licensesByRecipient,
                   outbox, lastStore>>

\* an INSERT into a table that has no UNIQUE(user_id): a further row
insertWithoutUnique(u) == [ok |-> TRUE, count |-> settingsCount[u] + 1]

\* INSERT INTO user_notification_settings: UNIQUE(user_id) makes the insert
\* of a second row of a user fail with a duplicate key error
insertSettings(u) ==
    IF settingsCount[u] > 0
    THEN [ok |-> FALSE, count |-> settingsCount[u]]
    ELSE [ok |-> TRUE, count |-> 1]

\* UPDATE ... WHERE user_id = $6, or INSERT (UNIQUE(user_id)); on success
\* updateUserSchedule(userId) is called
PutWrite(r) ==
    LET u == reqs[r].user
        row == SettingsRow(reqs[r].body)
        ins == insertSettings(u)
    IN /\ reqs[r].pc = "write"
       /\ \/ /\ Succeeds
             /\ IF reqs[r].existing
                THEN /\ settings' = IF u \in DOMAIN settings
                                    THEN [settings EXCEPT ![u] = row]
                                    ELSE settings
                     /\ lastStore' = IF u \in DOMAIN settings
                                     THEN [lastStore EXCEPT ![u] = r]
                                     ELSE lastStore
                     /\ reqs' = [reqs EXCEPT ![r].pc = "refresh"]
                     /\ UNCHANGED settingsCount
                ELSE IF ~ins.ok
                     THEN \* duplicate key: the dbError branch
                          /\ reqs' = Respond(r, 500)
                          /\ UNCHANGED <<settings, lastStore, settingsCount>>
                     ELSE /\ settings' = (u :> row) @@ settings
                          /\ settingsCount' = [settingsCount EXCEPT ![u] = ins.count]
                          /\ lastStore' = [lastStore EXCEPT ![u] = r]
                          /\ reqs' = [reqs EXCEPT ![r].pc = "refresh"]
          \/ /\ Fails
             /\ reqs' = Respond(r, 500)
             /\ UNCHANGED <<settings, lastStore, settingsCount>>
       /\ inits' = IF settings' # settings THEN Dirty(inits) ELSE inits
       /\ UNCHANGED <<users, licenses, frameVars, schedVars, runs,
                      licensesByRecipient, outbox>>

\* updateUserSchedule: the query ... WHERE u.id = $1 AND uns.send_to_email = true;
\* a failure is caught and logged inside updateUserSchedule, the handler goes on
updateUserScheduleQuery(r) ==
    LET u == reqs[r].user
    IN /\ reqs[r].pc = "refresh"
       /\ \/ /\ Succeeds
             /\ reqs' = [reqs EXCEPT ![r].pc = "apply",
                                     ![r].rows = RowsOf({u} \cap EnabledUsers)]
          \/ /\ Fails
             /\ reqs' = Respond(r, 200)
       /\ UNCHANGED <<dbVars, frameVars, schedVars, inits, runs, licensesByRecipient,
                      outbox, lastStore>>

\* updateUserSchedule after its query
updateUserSchedule(st, userId, rows) ==
    IF Len(rows) > 0
    THEN scheduleUserNotifications(st, rows[1])
    ELSE cancelUserSchedule(st, userId)

\* the continuation of updateUserSchedule, then res.json of the handler
updateUserScheduleApply(r) ==
    /\ reqs[r].pc = "apply"
    /\ Len(tasks) + Len(reqs[r].rows) <= MaxTasks
    /\ SetSched(updateUserSchedule(SchedState, reqs[r].user, reqs[r].rows))
    /\ reqs' = Respond(r, 200)
    /\ inits' = Dirty(inits)
    /\ UNCHANGED <<dbVars, frameVars, runs, licensesByRecipient, outbox,
                   faults, lastStore>>

(* --------------------------- initScheduler ---------------------------- *)
IdleInit == [pc |-> "idle", rows |-> <<>>, clean |-> TRUE, queryOk |-> FALSE]

\* initScheduler up to its await: the existing tasks are stopped and cleared
initSchedulerStart(i) ==
    /\ inits[i].pc = "idle"
    /\ \A j \in 1..(i - 1) : inits[j].pc = "done"
    /\ SetSched(clearAllTasks(SchedState))
    /\ inits' = [inits EXCEPT ![i].pc = "query"]
    /\ UNCHANGED <<dbVars, frameVars, reqs, runs, licensesByRecipient, outbox,
                   faults, lastStore>>

\* getUsersWithEmailNotifications: the rows, or [] when the query fails
getUsersWithEmailNotifications(i) ==
    /\ inits[i].pc = "query"
    /\ \/ /\ Succeeds
          /\ inits' = [inits EXCEPT ![i].pc = "apply", ![i].rows = RowsOf(EnabledUsers),
                                    ![i].queryOk = TRUE]
       \/ /\ Fails
          /\ inits' = [inits EXCEPT ![i].pc = "apply", ![i].rows = <<>>]
    /\ UNCHANGED <<dbVars, frameVars, schedVars, reqs, runs, licensesByRecipient,
                   outbox, lastStore>>

\* users.forEach(user => scheduleUserNotifications(user)) and the return
initSchedulerApply(i) ==
    /\ inits[i].pc = "apply"
    /\ Len(tasks) + Len(inits[i].rows) <= MaxTasks
    /\ SetSched(scheduleAll(SchedState, inits[i].rows))
    /\ inits' = [inits EXCEPT ![i].pc = "done", ![i].rows = <<>>]
    /\ UNCHANGED <<dbVars, frameVars, reqs, runs, licensesByRecipient, outbox,
                   faults, lastStore>>

(* ----------------------- cron callback, pipeline ---------------------- *)
\* the scheduler state after the callback of a task ends: its try and its
\* catch only log (scheduler.js 48-68)
afterCallbackStops(st, r) ==
    IF r.result = "failed" THEN cancelUserSchedule(st, r.userId) ELSE st

afterCallback(st, r) == st

\* the scheduler state after a step that leaves run k as r1
AfterStep(r1) ==
    IF r1.pc = "done" /\ r1.task # 0 THEN afterCallback(SchedState, r1) ELSE SchedState

\* a running task fires: its callback calls
\* processLicenseExpirations(user.days_before_expiration, user.include_inactive, user.id)
Fire(t) ==
    /\ t \in DOMAIN tasks
    /\ tasks[t].running
    /\ Len(runs) < MaxFires
    /\ runs' = Append(runs, NewRun(t, tasks[t].user.days_before_expiration,
                                   tasks[t].user.include_inactive, tasks[t].user.id))
    /\ licensesByRecipient' = Append(licensesByRecipient, <<>>)
    /\ UNCHANGED <<dbVars, frameVars, schedVars, reqs, inits, outbox, faults, lastStore>>

\* processLicenseExpirations(daysAhead, includeInactive, userId) is called
processLicenseExpirations(daysAhead, includeInactive, userId) ==
    /\ Len(runs) < MaxRuns
    /\ runs' = Append(runs, NewRun(0, daysAhead, includeInactive, userId))
    /\ licensesByRecipient' = Append(licensesByRecipient, <<>>)
    /\ UNCHANGED <<dbVars, frameVars, schedVars, reqs, inits, outbox, faults, lastStore>>

\* (history, in a run record: resolved, skipped, and sentBefore, the selected
\* licenses that had notification_sent = true when they were selected)
\* run k goes on as r1 with its Map as g1
Step(k, r1, g1) ==
    /\ runs' = [runs EXCEPT ![k] = r1]
    /\ licensesByRecipient' = [licensesByRecipient EXCEPT ![MapOf(k)] = g1]
    /\ SetSched(AfterStep(r1))

\* await getExpiringLicenses(daysAhead, includeInactive); a query error is
\* rethrown and caught by processLicenseExpirations: { success: false }
RunSelect(k) ==
    k \in DOMAIN runs /\
    LET r == runs[k]
        g == licensesByRecipient[MapOf(k)]
        rows == getExpiringLicenses(r.daysAhead, r.includeInactive)
        n == IF rows = <<>>
             THEN [r |-> [r EXCEPT !.pc = "done", !.result = "ok"], g |-> g]
             ELSE GroupLoop([r EXCEPT !.expiring = rows,
                                      !.sentBefore = {l \in Range(rows) :
                                                        licenses[l].notification_sent}], g)
    IN /\ r.pc = "select"
       /\ \/ Succeeds /\ Step(k, n.r, n.g)
          \/ Fails /\ Step(k, [r EXCEPT !.pc = "done", !.result = "failed"], g)
       /\ UNCHANGED <<dbVars, frameVars, reqs, inits, outbox, lastStore>>

\* a resolver that ignores the address of the settings row
SettingsRecipientLoginOnly(u) == users[u].email

\* settings.email_address || settings.email
SettingsRecipient(u) ==
    IF Truthy(settings[u].email_address) THEN settings[u].email_address ELSE users[u].email

\* await of the settings query of the current license; no row or an error: getUserEmail
RunSettings(k) ==
    k \in DOMAIN runs /\
    LET r == runs[k]
        g == licensesByRecipient[MapOf(k)]
        u == r.userId
        rcpt == SettingsRecipient(u)
        n == GroupCurrent(r, g, rcpt, rcpt)
        m == GroupLoop(n.r, n.g)
    IN /\ r.pc = "settings"
       /\ \/ /\ Succeeds
             /\ IF u \in DOMAIN settings \cap DOMAIN users
                THEN Step(k, m.r, m.g)
                ELSE Step(k, [r EXCEPT !.pc = "userEmail"], g)
          \/ Fails /\ Step(k, [r EXCEPT !.pc = "userEmail"], g)
       /\ UNCHANGED <<dbVars, frameVars, reqs, inits, outbox, lastStore>>

\* a lookup that never finds the login email
getUserEmailNull(u) == ""

\* result.rows[0]?.email || null
getUserEmail(u) == IF u \in DOMAIN users /\ Truthy(users[u].email) THEN users[u].email ELSE ""

\* await getUserEmail(userId): null on an error; recipient stays ADMIN_EMAIL then
RunUserEmail(k) ==
    k \in DOMAIN runs /\
    LET r == runs[k]
        g == licensesByRecipient[MapOf(k)]
        Cont(e) == LET n == GroupCurrent(r, g, IF Truthy(e) THEN e ELSE adminEmail, e)
                   IN GroupLoop(n.r, n.g)
    IN /\ r.pc = "userEmail"
       /\ \/ Succeeds /\ Step(k, Cont(getUserEmail(r.userId)).r, Cont(getUserEmail(r.userId)).g)
          \/ Fails /\ Step(k, Cont("").r, Cont("").g)
       /\ UNCHANGED <<dbVars, frameVars, reqs, inits, outbox, lastStore>>

\* the messages with which transporter.sendMail rejects (a message is the
\* list of the parts it was put together from)
TransportErrors == {"Invalid login", "Connection timeout"}
TransportError(cause) == [name |-> "Error", message |-> <<cause>>]

\* message.includes(part)
Includes(message, part) == \E i \in DOMAIN message : message[i] = part

\* what the catch of sendLicenseExpirationEmail throws: its first statement,
\* logger.error(..., { licenseId: license?.id, recipient, daysUntilExpiry }),
\* reads `license` and `daysUntilExpiry`, which are not declared in the scope
\* of the catch, so the ReferenceError of that read leaves the function and
\* the statements that build enhancedError are not reached
catchOfSend(error, recipient) ==
    [name |-> "ReferenceError", message |-> <<"license is not defined">>]

\* sendLicenseExpirationEmail(licenses, email, userEmail) up to the answer of
\* transporter.sendMail; a rejection is thrown to the send loop, which goes on
\* (history, in a message: cause, the error of the transport, and thrown, what
\* sendLicenseExpirationEmail has thrown to its caller)
RunSend(k) ==
    k \in DOMAIN runs /\
    LET r == runs[k]
        g == licensesByRecipient[MapOf(k)]
        digest == g[r.gi]
        mail(ok, cause, thrown) ==
            [run |-> k, test |-> 0, to |-> digest.email, items |-> digest.licenses,
             html |-> Html(digest.licenses), accepted |-> ok, marks |-> <<>>,
             cause |-> cause, thrown |-> thrown]
    IN /\ r.pc = "send"
       /\ \/ /\ UNCHANGED rejected
             /\ outbox' = Append(outbox, mail(TRUE, <<>>, <<>>))
             /\ Step(k, [r EXCEPT !.pc = "mark", !.mi = 1, !.ob = Len(outbox) + 1], g)
          \/ /\ rejected < MaxRejects
             /\ rejected' = rejected + 1
             /\ \E c \in TransportErrors :
                   outbox' = Append(outbox,
                                    mail(FALSE, <<TransportError(c)>>,
                                         <<catchOfSend(TransportError(c), digest.email)>>))
             /\ Step(k, onSendError(r, g), g)
       /\ UNCHANGED <<dbVars, envVars, reqs, inits, faults, lastStore>>

\* an update that also deactivates the license
markAndDeactivate(l) ==
    [licenses EXCEPT ![l].notification_sent = TRUE, ![l].updated_at = tod,
                     ![l].is_active = FALSE]

\* an update without its WHERE clause: every license is marked
markEveryLicense(l) ==
    [x \in DOMAIN licenses |->
        [licenses[x] EXCEPT !.notification_sent = TRUE, !.updated_at = tod]]

\* UPDATE licenses SET notification_sent = true, updated_at = NOW() WHERE id = $1
markLicenseAsNotified(l) ==
    [licenses EXCEPT ![l].notification_sent = TRUE, ![l].updated_at = tod]

\* await markLicenseAsNotified(license.id) of the marking loop; an error is
\* caught and logged; after the last one sendLicenseExpirationEmail returns true
RunMark(k) ==
    k \in DOMAIN runs /\
    LET r == runs[k]
        g == licensesByRecipient[MapOf(k)]
        items == outbox[r.ob].items
        l == items[r.mi].license
    IN /\ r.pc = "mark"
       /\ \/ /\ Succeeds
             /\ licenses' = markLicenseAsNotified(l)
             /\ outbox' = [outbox EXCEPT ![r.ob].marks = Append(@, [license |-> l, ok |-> TRUE])]
             /\ Step(k, afterMark(r, g, items, TRUE), g)
          \/ /\ Fails
             /\ UNCHANGED licenses
             /\ outbox' = [outbox EXCEPT ![r.ob].marks = Append(@, [license |-> l, ok |-> FALSE])]
             /\ Step(k, afterMark(r, g, items, FALSE), g)
       /\ UNCHANGED <<users, settings, settingsCount, frameVars, reqs, inits, lastStore>>

(* ------------------------ GET /test-email handler --------------------- *)
\* the conditions the SMTP transport is tried in: it works, or it answers
\* every sendMail with one of TransportErrors
TransportConditions == {"ok"} \cup TransportErrors

\* the arguments of the call in the route: the address is passed where
\* sendLicenseExpirationEmail has its parameter licenses, and the name of the
\* test contract where it has its parameter recipient
TestLicenseName == "Test License"

\* rows of: SELECT u.email, uns.* FROM users u LEFT JOIN
\* user_notification_settings uns ON u.id = uns.user_id WHERE u.id = $1
TestUserRows(u) ==
    IF u \notin DOMAIN users THEN <<>>
    ELSE <<[email |-> users[u].email,
            email_address |-> IF u \in DOMAIN settings THEN settings[u].email_address ELSE ""]>>

\* user.email_address || user.email
TestRecipient(user) == IF Truthy(user.email_address) THEN user.email_address ELSE user.email

\* sendLicenseExpirationEmail from its entry to its await of sendMail, for a
\* string as licenses: <<>> when sendMail is reached, else what is thrown in
\* the try. [...licenses] is the list of the string's characters; in
\* emailService.js `const { name, vendor_name } = expiringSoonest.license`
\* destructures undefined, in part_011 the flattened copy is destructured and
\* the message is built without rows.
beforeSendMail(recipient) ==
    IF ~Truthy(recipient)
    THEN <<[name |-> "Error", message |-> <<"No recipient email address provided">>]>>
    ELSE IF variant = "emailService"
         THEN <<[name |-> "TypeError",
                 message |-> <<"Cannot destructure property 'name' of 'expiringSoonest.license'">>]>>
         ELSE <<>>

\* the marking loop for a string as licenses: `for (const { license } of
\* licenses)` binds undefined and `license.id` throws
markingOfCharacters ==
    [name |-> "TypeError", message |-> <<"Cannot read properties of undefined (reading 'id')">>]

IdleTest ==
    [pc |-> "idle", user |-> NoUser, transport |-> "ok", recipient |-> "",
     caught |-> <<>>, status |-> 0, success |-> FALSE, error |-> "", message |-> <<>>]

\* res.status(code).json({ success: false, error })
TestFailure(t, code, error) ==
    [tests EXCEPT ![t].pc = "done", ![t].status = code, ![t].error = error]

\* the request arrives (authenticated as user u) and the query is issued;
\* c is the condition of the transport while the request is served
TestReceive(u, c) ==
    /\ Len(tests) < MaxTests
    /\ tests' = Append(tests, [IdleTest EXCEPT !.pc = "query", !.user = u, !.transport = c])
    /\ UNCHANGED <<dbVars, adminEmail, variant, tod, rejected, gets, jobVars, schedVars,
                   reqs, inits, runs, licensesByRecipient, outbox, faults, lastStore>>

\* the query answers: 404, 400, or the call of sendLicenseExpirationEmail(
\* recipient, 'Test License', 'Test Vendor', 'Test Customer', date, 7), which
\* runs to its first await or to its catch; a query error is answered by the
\* outer catch
TestQuery(t) ==
    /\ t \in DOMAIN tests
    /\ tests[t].pc = "query"
    /\ \/ /\ Succeeds
          /\ LET rows == TestUserRows(tests[t].user)
                 recipient == TestRecipient(rows[1])
                 thrown == beforeSendMail(TestLicenseName)
             IN tests' =
                  IF rows = <<>> THEN TestFailure(t, 404, "User not found")
                  ELSE IF ~Truthy(recipient)
                  THEN TestFailure(t, 400, "No email address found for your user account. Please update your profile with a valid email address.")
                  ELSE IF thrown # <<>>
                  THEN [tests EXCEPT ![t].pc = "caught", ![t].recipient = recipient,
                                     ![t].caught = <<catchOfSend(thrown[1], TestLicenseName)>>]
                  ELSE [tests EXCEPT ![t].pc = "sendMail", ![t].recipient = recipient]
       \/ /\ Fails
          /\ tests' = TestFailure(t, 500, "Internal server error")
    /\ UNCHANGED <<dbVars, adminEmail, variant, tod, rejected, gets, jobVars, schedVars,
                   reqs, inits, runs, licensesByRecipient, outbox, lastStore>>

\* transporter.sendMail({ to: 'Test License', ... }) answers. A transport in
\* condition c rejects with c; a working one accepts the message or rejects
\* it for its address. After an accepted message the marking loop throws.
\* Either way the catch of sendLicenseExpirationEmail runs.
TestSendMail(t) ==
    /\ t \in DOMAIN tests
    /\ tests[t].pc = "sendMail"
    /\ \E ok \in BOOLEAN, c \in TransportErrors \cup {"No recipients defined"} :
          /\ ok => tests[t].transport = "ok"
          /\ (~ok /\ tests[t].transport # "ok") => c = tests[t].transport
          /\ (~ok /\ tests[t].transport = "ok") => c = "No recipients defined"
          /\ LET cause == IF ok THEN <<>> ELSE <<TransportError(c)>>
                 error == IF ok THEN markingOfCharacters ELSE TransportError(c)
                 thrown == <<catchOfSend(error, TestLicenseName)>>
             IN /\ outbox' = Append(outbox,
                                    [run |-> 0, test |-> t, to |-> TestLicenseName,
                                     items |-> <<>>, html |-> <<>>, accepted |-> ok,
                                     marks |-> <<>>, cause |-> cause, thrown |-> thrown])
                /\ tests' = [tests EXCEPT ![t].pc = "caught", ![t].caught = thrown]
    /\ UNCHANGED <<dbVars, adminEmail, variant, tod, rejected, gets, jobVars, schedVars,
                   reqs, inits, runs, licensesByRecipient, faults, lastStore>>

\* the error message of the 500 answer, chosen by emailError.message
TestErrorMessage(emailError) ==
    IF Includes(emailError.message, "Invalid login")
    THEN "Invalid email credentials. Please check your Gmail settings."
    ELSE IF Includes(emailError.message, "Connection timeout")
    THEN "Connection to email server timed out. Please check your internet connection."
    ELSE "Failed to send test email"

\* the route goes on after its await of sendLicenseExpirationEmail: the
\* answer { success: true, message: `Test email sent to ${recipient}` }, or
\* catch (emailError): the 500 answer
TestAnswer(t) ==
    /\ t \in DOMAIN tests
    /\ tests[t].pc \in {"caught", "sent"}
    /\ tests' = IF tests[t].pc = "sent"
                THEN [tests EXCEPT ![t].pc = "done", ![t].status = 200, ![t].success = TRUE,
                                   ![t].message = <<"Test email sent to ", tests[t].recipient>>]
                ELSE TestFailure(t, 500, TestErrorMessage(tests[t].caught[1]))
    /\ UNCHANGED <<dbVars, adminEmail, variant, tod, rejected, gets, jobVars, schedVars,
                   reqs, inits, runs, licensesByRecipient, outbox, faults, lastStore>>

(* --------------------- GET /notifications handler --------------------- *)
\* row[name] of a row object of the table: <<>> stands for undefined, the
\* value of a property the row does not have
Column(row, name) == IF name \in DOMAIN row THEN <<row[name]>> ELSE <<>>

\* the answer when the user has no row
GetDefaults ==
    [daysBeforeExpiration |-> 30, notificationTime |-> TimeColumn(Morning),
     sendToEmail |-> TRUE, emailAddress |-> "admin@example.com",
     includeInactive |-> FALSE]

\* the mapping of a row to the answer: each `x || default` yields the
\* default for a falsy x, and sendToEmail is
\* `settings.email_notifications !== false`, a column the table does not
\* have (it is send_to_email)
GetBody(row) ==
    [daysBeforeExpiration |-> IF row.days_before_expiration # 0
                              THEN row.days_before_expiration ELSE 30,
     notificationTime |-> row.notification_time,
     sendToEmail |-> Column(row, "email_notifications") # <<FALSE>>,
     emailAddress |-> IF Truthy(row.email_address)
                      THEN row.email_address ELSE "admin@example.com",
     includeInactive |-> row.include_inactive]

\* the request arrives (authenticated as user u) and the SELECT is issued
GetReceive(u) ==
    /\ Len(gets) < MaxGets
    /\ u \in DOMAIN users
    /\ gets' = Append(gets, [pc |-> "query", user |-> u, status |-> 0,
                             body |-> GetDefaults, stored |-> <<>>, after |-> 0])
    /\ UNCHANGED <<dbVars, adminEmail, variant, tod, rejected, tests, jobVars, schedVars,
                   reqs, inits, runs, licensesByRecipient, outbox, faults, lastStore>>

\* SELECT * FROM user_notification_settings WHERE user_id = $1 answers; an
\* error is answered 500 (history, in the request: stored, the row the query
\* found, and after, the PUT request that had stored it and had been
\* answered 200 by then)
GetQuery(g) ==
    /\ g \in DOMAIN gets
    /\ gets[g].pc = "query"
    /\ LET u == gets[g].user
           r == lastStore[u]
       IN \/ /\ Succeeds
             /\ gets' = [gets EXCEPT
                   ![g].pc = "done", ![g].status = 200,
                   ![g].body = IF u \in DOMAIN settings THEN GetBody(settings[u])
                               ELSE GetDefaults,
                   ![g].stored = IF u \in DOMAIN settings THEN <<settings[u]>> ELSE <<>>,
                   ![g].after = IF r # 0 /\ reqs[r].pc = "done" /\ reqs[r].status = 200
                                THEN r ELSE 0]
          \/ /\ Fails
             /\ gets' = [gets EXCEPT ![g].pc = "done", ![g].status = 500]
    /\ UNCHANGED <<dbVars, adminEmail, variant, tod, rejected, tests, jobVars, schedVars,
                   reqs, inits, runs, licensesByRecipient, outbox, lastStore>>

(* --------------------------- NotificationJob -------------------------- *)
\* rows of: SELECT user_id FROM user_notification_settings
JobUserIds(S) ==
    IF S = {} THEN <<>>
    ELSE LET rows == RowsOf(S) IN [i \in DOMAIN rows |-> rows[i].id]

\* cron.schedule(CRON_SCHEDULE, callback, { scheduled: true }): a running job
\* whose callback has userIds in its closure
NewCronJob(userIds) == [running |-> TRUE, userIds |-> userIds]

\* a callback that goes through userIds, one processLicenseExpirations at a time
NewSweep(userIds) ==
    [pc |-> IF userIds = <<>> THEN "done" ELSE "call", userIds |-> userIds, ui |-> 1, run |-> 0]

\* notificationJob.start(): returns at once when this.job is set. The class
\* of lines 9-88 issues its query and awaits it; the earlier class (lines
\* 103-153) schedules at once, and its callbacks call
\* processContractExpirations, which emailService does not export: the
\* TypeError is caught and logged
start ==
    /\ Len(starts) < MaxStarts
    /\ IF notificationJob.job # 0
       THEN /\ starts' = Append(starts, [pc |-> "done"])
            /\ UNCHANGED <<notificationJob, cronJobs>>
       ELSE IF notificationJob.class = "sync"
       THEN /\ cronJobs' = Append(cronJobs, NewCronJob(<<>>))
            /\ notificationJob' = [notificationJob EXCEPT !.job = Len(cronJobs) + 1]
            /\ starts' = Append(starts, [pc |-> "done"])
       ELSE /\ starts' = Append(starts, [pc |-> "query"])
            /\ UNCHANGED <<notificationJob, cronJobs>>
    /\ UNCHANGED <<dbVars, adminEmail, variant, tod, rejected, apiVars, schedVars, sweeps,
                   reqs, inits, runs, licensesByRecipient, outbox, faults, lastStore>>

\* the query of start() answers: this.job = cron.schedule(...), and the
\* nextTick callback is queued; on an error start() returns
startQuery(i) ==
    /\ i \in DOMAIN starts
    /\ starts[i].pc = "query"
    /\ starts' = [starts EXCEPT ![i].pc = "done"]
    /\ \/ /\ Succeeds
          /\ LET userIds == JobUserIds(DOMAIN settings)
             IN /\ cronJobs' = Append(cronJobs, NewCronJob(userIds))
                /\ notificationJob' = [notificationJob EXCEPT !.job = Len(cronJobs) + 1]
                /\ sweeps' = Append(sweeps, NewSweep(userIds))
       \/ /\ Fails
          /\ UNCHANGED <<notificationJob, cronJobs, sweeps>>
    /\ UNCHANGED <<dbVars, adminEmail, variant, tod, rejected, apiVars, schedVars,
                   reqs, inits, runs, licensesByRecipient, outbox, lastStore>>

\* notificationJob.stop(): this.job.stop(); this.job = null
stop ==
    /\ IF notificationJob.job # 0
       THEN /\ cronJobs' = [cronJobs EXCEPT ![notificationJob.job].running = FALSE]
            /\ notificationJob' = [notificationJob EXCEPT !.job = 0]
       ELSE UNCHANGED <<notificationJob, cronJobs>>
    /\ UNCHANGED <<dbVars, adminEmail, variant, tod, rejected, apiVars, schedVars, starts,
                   sweeps, reqs, inits, runs, licensesByRecipient, outbox, faults, lastStore>>

\* a running cron job fires: its callback starts to go through its userIds
jobFire(j) ==
    /\ j \in DOMAIN cronJobs
    /\ cronJobs[j].running
    /\ Len(sweeps) < MaxSweeps
    /\ sweeps' = IF notificationJob.class = "async"
                 THEN Append(sweeps, NewSweep(cronJobs[j].userIds))
                 ELSE sweeps
    /\ UNCHANGED <<dbVars, adminEmail, variant, tod, rejected, apiVars, schedVars,
                   notificationJob, cronJobs, starts,
                   reqs, inits, runs, licensesByRecipient, outbox, faults, lastStore>>

\* await processLicenseExpirations(7, false, userId) is called for the next user
sweepCall(s) ==
    /\ s \in DOMAIN sweeps
    /\ sweeps[s].pc = "call"
    /\ Len(runs) < MaxRuns
    /\ runs' = Append(runs, NewRun(0, JobDays, FALSE, sweeps[s].userIds[sweeps[s].ui]))
    /\ licensesByRecipient' = Append(licensesByRecipient, <<>>)
    /\ sweeps' = [sweeps EXCEPT ![s].pc = "wait", ![s].run = Len(runs) + 1]
    /\ UNCHANGED <<dbVars, adminEmail, variant, tod, rejected, apiVars, schedVars,
                   notificationJob, cronJobs, starts,
                   reqs, inits, outbox, faults, lastStore>>

\* the call has returned (it does not throw): on to the next user
sweepResume(s) ==
    /\ s \in DOMAIN sweeps
    /\ sweeps[s].pc = "wait"
    /\ runs[sweeps[s].run].pc = "done"
    /\ sweeps' = [sweeps EXCEPT ![s].ui = @ + 1,
                                ![s].pc = IF sweeps[s].ui < Len(sweeps[s].userIds)
                                          THEN "call" ELSE "done"]
    /\ UNCHANGED <<dbVars, adminEmail, variant, tod, rejected, apiVars, schedVars,
                   notificationJob, cronJobs, starts,
                   reqs, inits, runs, licensesByRecipient, outbox, faults, lastStore>>

(* --------------------------- specifications --------------------------- *)
LoginEmail(u) == IF u = 1 THEN "u1@x.com" ELSE "u2@x.com"

\* the row the column defaults of user_notification_settings give
DefaultRow ==
    [days_before_expiration |-> DefaultDays, send_to_email |-> TRUE,
     notification_time |-> TimeColumn(Morning),
     email_address |-> "admin@example.com", include_inactive |-> FALSE]

\* new NotificationJob(): this.job = null (0); class is the class the module defines
NewNotificationJob(class) == [class |-> class, job |-> 0]

\* no request, no call and no timer yet; one row per user id in settings
InitIdle ==
    /\ settingsCount = [u \in UserIds |-> IF u \in DOMAIN settings THEN 1 ELSE 0]
    /\ tests = <<>>
    /\ gets = <<>>
    /\ cronJobs = <<>>
    /\ starts = <<>>
    /\ sweeps = <<>>
    /\ tasks = <<>>
    /\ activeTasks = <<>>
    /\ reqs = [r \in 1..MaxReq |-> IdleReq]
    /\ inits = [i \in 1..MaxInit |-> IdleInit]
    /\ outbox = <<>>
    /\ faults = 0
    /\ rejected = 0
    /\ lastStore = [u \in UserIds |-> 0]

InitProcess ==
    /\ InitIdle
    /\ notificationJob = NewNotificationJob("async")
    /\ runs = <<>>
    /\ licensesByRecipient = <<>>

\* the scheduler and the settings handler, on a database without licenses:
\* user 1 has a settings row (the column defaults), the other users have none
Init ==
    /\ users = [u \in UserIds |-> [email |-> LoginEmail(u)]]
    /\ settings = (1 :> DefaultRow)
    /\ licenses = <<>>
    /\ adminEmail = "admin@x.com"
    /\ variant = "emailService"
    /\ tod = 0
    /\ InitProcess

Next ==
    \/ \E r \in 1..MaxReq, u \in UserIds, body \in Bodies : PutReceive(r, u, body)
    \/ \E r \in 1..MaxReq : PutSelect(r)
    \/ \E r \in 1..MaxReq : PutWrite(r)
    \/ \E r \in 1..MaxReq : updateUserScheduleQuery(r)
    \/ \E r \in 1..MaxReq : updateUserScheduleApply(r)
    \/ \E i \in 1..MaxInit : initSchedulerStart(i)
    \/ \E i \in 1..MaxInit : getUsersWithEmailNotifications(i)
    \/ \E i \in 1..MaxInit : initSchedulerApply(i)
    \/ \E t \in 1..MaxTasks : Fire(t)
    \/ \E k \in 1..MaxRuns : RunSelect(k)

Spec == Init /\ [][Next]_vars

\* arguments of the calls of processLicenseExpirations that are tried
CallDays == {0, DefaultDays}
\* an id that has no row in users (and none in user_notification_settings)
UnknownUser == MaxUsers + 1
CallUsers == UserIds \cup {NoUser, UnknownUser}

\* updated_at in ticks from today's midnight: the rows were last written before today
LicenseRow(d, active) ==
    [expiration_date |-> d, is_active |-> active, notification_sent |-> FALSE,
     updated_at |-> -1]

\* licenses tables tried: expiration dates in days from today
LicenseTables ==
    {[l \in LicenseIds |-> LicenseRow(IF l = 1 THEN 5 ELSE 1, TRUE)],
     [l \in LicenseIds |-> LicenseRow(IF l = 1 THEN -3 ELSE 40, l # 1)]}

\* the pipeline alone: calls of processLicenseExpirations on a database with
\* licenses; user 1 has a settings row, with an override address or with an
\* empty one, the other users have no settings row
InitPipeline ==
    /\ users = [u \in UserIds |-> [email |-> LoginEmail(u)]]
    /\ settings \in {(1 :> [DefaultRow EXCEPT !.email_address = e]) : e \in {"ops@x.com", ""}}
    /\ licenses \in LicenseTables
    /\ adminEmail \in {"admin@x.com", ""}
    /\ variant \in {"emailService", "part_011"}
    /\ tod \in 0..(TicksPerDay - 1)
    /\ InitProcess

NextPipeline ==
    \/ \E d \in CallDays, inc \in BOOLEAN, u \in CallUsers : processLicenseExpirations(d, inc, u)
    \/ \E k \in 1..MaxRuns : RunSelect(k)
    \/ \E k \in 1..MaxRuns : RunSettings(k)
    \/ \E k \in 1..MaxRuns : RunUserEmail(k)
    \/ \E k \in 1..MaxRuns : RunSend(k)
    \/ \E k \in 1..MaxRuns : RunMark(k)

SpecPipeline == InitPipeline /\ [][NextPipeline]_vars

\* the selector on its inputs: every table of two licenses with these
\* expiration dates (days from today), active or not; runs without a user id
SelectorDates == {-40, -3, 0, 5, 40}
SelectorDays == {0, DefaultDays}

SelectorTables ==
    [LicenseIds -> {LicenseRow(d, a) : d \in SelectorDates, a \in BOOLEAN}]

InitSelector ==
    /\ users = [u \in UserIds |-> [email |-> LoginEmail(u)]]
    /\ settings = (1 :> DefaultRow)
    /\ licenses \in SelectorTables
    /\ adminEmail = "admin@x.com"
    /\ variant \in {"emailService", "part_011"}
    /\ tod \in 0..(TicksPerDay - 1)
    /\ InitProcess

NextSelector ==
    \/ \E d \in SelectorDays, inc \in BOOLEAN : processLicenseExpirations(d, inc, NoUser)
    \/ \E k \in 1..MaxRuns : RunSelect(k)
    \/ \E k \in 1..MaxRuns : RunSend(k)
    \/ \E k \in 1..MaxRuns : RunMark(k)

SpecSelector == InitSelector /\ [][NextSelector]_vars

\* one user's schedule end to end: user 1 has stored 30 days and the address
\* u@x.com; license 1 is active and expires in 10 days, license 2 is outside
\* the user's selection (too far ahead, or inactive)
ScenarioRow ==
    [DefaultRow EXCEPT !.days_before_expiration = 30, !.email_address = "u@x.com"]

ScenarioTables ==
    {[l \in LicenseIds |-> IF l = 1 THEN LicenseRow(10, TRUE) ELSE other] :
        other \in {LicenseRow(45, TRUE), LicenseRow(20, FALSE)}}

InitScenario ==
    /\ users = [u \in UserIds |-> [email |-> LoginEmail(u)]]
    /\ settings = (1 :> ScenarioRow)
    /\ licenses \in ScenarioTables
    /\ adminEmail = "admin@x.com"
    /\ variant \in {"emailService", "part_011"}
    /\ tod \in 0..(TicksPerDay - 1)
    /\ InitProcess

NextScenario ==
    \/ \E i \in 1..MaxInit : initSchedulerStart(i)
    \/ \E i \in 1..MaxInit : getUsersWithEmailNotifications(i)
    \/ \E i \in 1..MaxInit : initSchedulerApply(i)
    \/ \E t \in 1..MaxTasks : Fire(t)
    \/ \E k \in 1..MaxRuns : RunSelect(k)
    \/ \E k \in 1..MaxRuns : RunSettings(k)
    \/ \E k \in 1..MaxRuns : RunUserEmail(k)
    \/ \E k \in 1..MaxRuns : RunSend(k)
    \/ \E k \in 1..MaxRuns : RunMark(k)

SpecScenario == InitScenario /\ [][NextScenario]_vars

\* the test-email route alone: user 1 has a settings row, with an override
\* address or with an empty one; user 2 has no settings row and a login
\* email or an empty one; requests of users 1, 2 and of a deleted user
InitTestEmail ==
    /\ users \in {[u \in UserIds |-> [email |-> IF u = 2 THEN e ELSE LoginEmail(u)]] :
                     e \in {LoginEmail(2), ""}}
    /\ settings \in {(1 :> [DefaultRow EXCEPT !.email_address = e]) : e \in {"ops@x.com", ""}}
    /\ licenses = <<>>
    /\ adminEmail = "admin@x.com"
    /\ variant \in {"emailService", "part_011"}
    /\ tod = 0
    /\ InitProcess

NextTestEmail ==
    \/ \E u \in UserIds \cup {UnknownUser}, c \in TransportConditions : TestReceive(u, c)
    \/ \E t \in 1..MaxTests : TestQuery(t)
    \/ \E t \in 1..MaxTests : TestSendMail(t)
    \/ \E t \in 1..MaxTests : TestAnswer(t)

SpecTestEmail == InitTestEmail /\ [][NextTestEmail]_vars

\* the composer on its inputs: sendLicenseExpirationEmail is called, as by
\* the send loop of processLicenseExpirations, with the one digest of the
\* administrator; its items are one or two licenses, in either order, whose
\* days until expiry are drawn from ComposerDays (a negative number of days
\* reaches the composer of either variant from any caller that has computed
\* one: the function is exported, and the pipeline computes the days after
\* and apart from the query that selected the license)
ComposerDays == {-2, 0, 1, 5}
ComposerOrders == {<<l>> : l \in LicenseIds} \cup {<<1, 2>>, <<2, 1>>}

\* a call of processLicenseExpirations at the top of its send loop
ComposerRun(order, g) ==
    [NewRun(0, DefaultDays, TRUE, NoUser) EXCEPT
        !.pc = "send", !.gi = 1, !.expiring = order, !.idx = Len(order) + 1,
        !.resolved = {<<order[i], g[1].email>> : i \in DOMAIN order}]

InitComposer ==
    /\ users = [u \in UserIds |-> [email |-> LoginEmail(u)]]
    /\ settings = (1 :> DefaultRow)
    /\ licenses \in [LicenseIds -> {LicenseRow(d, TRUE) : d \in ComposerDays}]
    /\ adminEmail = "admin@x.com"
    /\ variant \in {"emailService", "part_011"}
    /\ tod = 0
    /\ InitIdle
    /\ notificationJob = NewNotificationJob("async")
    /\ \E order \in ComposerOrders :
          LET g == <<[email |-> adminEmail, userEmail |-> "",
                      licenses |-> [i \in DOMAIN order |->
                                      [license |-> order[i],
                                       daysUntilExpiry |-> daysUntilExpiry(order[i])]]]>>
          IN /\ runs = <<ComposerRun(order, g)>>
             /\ licensesByRecipient = <<g>>

NextComposer ==
    \/ \E k \in 1..MaxRuns : RunSend(k)
    \/ \E k \in 1..MaxRuns : RunMark(k)

SpecComposer == InitComposer /\ [][NextComposer]_vars

\* the settings handlers alone: PUT /notifications (with its
\* updateUserSchedule) and GET /notifications, on the database of Init
NextSettings ==
    \/ \E r \in 1..MaxReq, u \in UserIds, body \in Bodies : PutReceive(r, u, body)
    \/ \E r \in 1..MaxReq : PutSelect(r)
    \/ \E r \in 1..MaxReq : PutWrite(r)
    \/ \E r \in 1..MaxReq : updateUserScheduleQuery(r)
    \/ \E r \in 1..MaxReq : updateUserScheduleApply(r)
    \/ \E u \in UserIds : GetReceive(u)
    \/ \E g \in 1..MaxGets : GetQuery(g)

SpecSettings == Init /\ [][NextSettings]_vars

\* the NotificationJob singleton, of either class, on a database without
\* licenses in which user 1, or each user, has a settings row
InitJob ==
    /\ users = [u \in UserIds |-> [email |-> LoginEmail(u)]]
    /\ settings \in {(1 :> DefaultRow), [u \in UserIds |-> DefaultRow]}
    /\ licenses = <<>>
    /\ adminEmail = "admin@x.com"
    /\ variant = "emailService"
    /\ tod = 0
    /\ InitIdle
    /\ notificationJob \in {NewNotificationJob("async"), NewNotificationJob("sync")}
    /\ runs = <<>>
    /\ licensesByRecipient = <<>>

NextJob ==
    \/ start
    \/ \E i \in 1..MaxStarts : startQuery(i)
    \/ stop
    \/ \E j \in 1..MaxStarts : jobFire(j)
    \/ \E s \in 1..MaxSweeps : sweepCall(s)
    \/ \E s \in 1..MaxSweeps : sweepResume(s)
    \/ \E k \in 1..MaxRuns : RunSelect(k)

SpecJob == InitJob /\ [][NextJob]_vars

(* ------------------------------- claims ------------------------------- *)
RunningTasksOf(u) == {t \in DOMAIN tasks : tasks[t].running /\ tasks[t].user.id = u}

\* C1: in every reachable state each user id has at most one running cron
\* task, and a running task of a user is the one activeTasks holds under
\* that user id (a replaced task has been stopped).
C1_OneRunningTaskPerUser ==
    \A u \in UserIds :
        /\ Cardinality(RunningTasksOf(u)) <= 1
        /\ RunningTasksOf(u) # {} =>
               u \in DOMAIN activeTasks /\ RunningTasksOf(u) = {activeTasks[u]}

\* a user's task was replaced: the earlier one is stopped, the later one runs
C1_Witness ==
    \E t1, t2 \in DOMAIN tasks :
        /\ t1 < t2
        /\ tasks[t1].user.id = tasks[t2].user.id
        /\ ~tasks[t1].running
        /\ tasks[t2].running
        /\ \E r \in 1..MaxReq : reqs[r].pc = "done" /\ reqs[r].status = 200
        /\ inits[1].pc = "done"

\* request r has answered 200 and its write is the last one of its user's row
Settled(r) ==
    /\ reqs[r].pc = "done"
    /\ reqs[r].status = 200
    /\ lastStore[reqs[r].user] = r

\* no request and no initScheduler call is between two of its steps
Quiescent ==
    /\ \A r \in 1..MaxReq : reqs[r].pc \in {"idle", "done"}
    /\ \A i \in 1..MaxInit : inits[i].pc \in {"idle", "done"}

\* C2: once send_to_email is stored as false and the updateUserSchedule call
\* of that change has returned, the user has no entry in activeTasks and no
\* running task that could fire (stated for behaviours without a database
\* failure, in states where no other call is still in progress).
C2_DisabledUserHasNoTimer ==
    \A r \in 1..MaxReq :
        (faults = 0 /\ Quiescent /\ Settled(r) /\ ~settings[reqs[r].user].send_to_email)
            => /\ reqs[r].user \notin DOMAIN activeTasks
               /\ RunningTasksOf(reqs[r].user) = {}

\* the cron expression and the arguments a task of user u has when it is
\* built from the stored settings row
MatchesStored(t, u) ==
    /\ tasks[t].cron = <<settings[u].notification_time.m, settings[u].notification_time.h>>
    /\ tasks[t].user.id = u
    /\ tasks[t].user.days_before_expiration = settings[u].days_before_expiration
    /\ tasks[t].user.include_inactive = settings[u].include_inactive

\* C3: once a PUT that stored new settings with send_to_email true has
\* answered successfully, the user's only running task is the one in
\* activeTasks, and it fires at the stored time with the stored
\* days_before_expiration, include_inactive and user id (stated for
\* behaviours without a database failure, in states where no other call is
\* still in progress).
C3_TimerCarriesStoredSettings ==
    \A r \in 1..MaxReq :
        (faults = 0 /\ Quiescent /\ Settled(r) /\ settings[reqs[r].user].send_to_email)
            => /\ reqs[r].user \in DOMAIN activeTasks
               /\ RunningTasksOf(reqs[r].user) = {activeTasks[reqs[r].user]}
               /\ MatchesStored(activeTasks[reqs[r].user], reqs[r].user)

\* the step that completes the initScheduler call i, no settings change
\* having happened since the call began
CompletesClean(i) ==
    /\ inits[i].pc = "apply"
    /\ inits'[i].pc = "done"
    /\ inits[i].clean

\* after the step: the users with a running task are the enabled users, and
\* every task that existed before the step is stopped
ExactlyEnabledUsersRun ==
    /\ {tasks'[t].user.id : t \in {x \in DOMAIN tasks' : tasks'[x].running}} = EnabledUsers
    /\ \A t \in DOMAIN tasks : ~tasks'[t].running

C5_FailedRunKeepsTasks ==
    [][\A k \in DOMAIN runs :
          (runs[k].task # 0 /\ runs[k].pc # "done"
           /\ runs'[k].pc = "done" /\ runs'[k].result = "failed")
              => tasks' = tasks /\ activeTasks' = activeTasks]_vars

\* a firing of one user's task has failed, its task is still the user's
\* running task, and another user has a running task too
C5_Witness ==
    \E k \in DOMAIN runs :
        /\ runs[k].task # 0
        /\ runs[k].result = "failed"
        /\ tasks[runs[k].task].running
        /\ runs[k].userId \in DOMAIN activeTasks
        /\ activeTasks[runs[k].userId] = runs[k].task
        /\ \E u \in UserIds \ {runs[k].userId} : RunningTasksOf(u) # {}

\* the licenses listed in one sendMail call
ItemLicenses(e) == {e.items[i].license : i \in DOMAIN e.items}

\* the sendMail calls of run k, in call order
Sent(k) == SelectSeq(outbox, LAMBDA e : e.run = k)

\* C6: whatever the interleaving of two runs, every email a run hands to the
\* transport lists exactly the licenses that this run selected and resolved
\* to the email's address, each once: nothing of the other run's grouping
\* gets into it.
C6_RunsShareNoGrouping ==
    \A j \in DOMAIN outbox :
        LET e == outbox[j]
            r == runs[e.run]
        IN /\ ItemLicenses(e) = {l \in Range(r.expiring) : <<l, e.to>> \in r.resolved}
           /\ Len(e.items) = Cardinality(ItemLicenses(e))

\* two runs of different users overlap: the run started second has sent its
\* email before the run started first sends its own, to another address
C6_Witness ==
    /\ Len(outbox) = 2
    /\ outbox[1].run = 2
    /\ outbox[2].run = 1
    /\ outbox[1].to # outbox[2].to
    /\ runs[1].userId # NoUser
    /\ runs[2].userId # NoUser
    /\ runs[1].userId # runs[2].userId

\* C7: no two sendMail calls of one run have the same recipient address,
\* accepted or rejected.
C7_OneEmailPerRecipient ==
    \A i, j \in DOMAIN outbox :
        (i # j /\ outbox[i].run = outbox[j].run) => outbox[i].to # outbox[j].to

\* a run has ended after the transport rejected its digest of two licenses
\* of one address: the digest was sent once and not again
C7_Witness ==
    \E j \in DOMAIN outbox :
        /\ ~outbox[j].accepted
        /\ Len(outbox[j].items) = 2
        /\ runs[outbox[j].run].pc = "done"
        /\ Len(Sent(outbox[j].run)) = 1

\* C8: no email is sent with an empty license list; and when a run has
\* returned, every selected license whose recipient resolved is listed in
\* exactly one email of the run (a run that selected nothing sent nothing).
C8_EachLicenseInOneDigest ==
    /\ \A j \in DOMAIN outbox : outbox[j].items # <<>>
    /\ \A k \in DOMAIN runs :
          (runs[k].pc = "done" /\ runs[k].result = "ok") =>
              /\ \A l \in Range(runs[k].expiring) \ runs[k].skipped :
                    Cardinality({j \in DOMAIN outbox :
                                   outbox[j].run = k /\ l \in ItemLicenses(outbox[j])}) = 1
              /\ \A l \in runs[k].skipped :
                    \A j \in DOMAIN outbox : outbox[j].run = k => l \notin ItemLicenses(outbox[j])
              /\ runs[k].expiring = <<>> => Sent(k) = <<>>

\* a run has returned after sending its two licenses in two emails to two
\* addresses, and another run that selected nothing has returned without one
C8_Witness ==
    /\ \E k \in DOMAIN runs :
          /\ runs[k].pc = "done"
          /\ Len(runs[k].expiring) = 2
          /\ Len(Sent(k)) = 2
    /\ \E k \in DOMAIN runs :
          /\ runs[k].pc = "done"
          /\ runs[k].result = "ok"
          /\ runs[k].expiring = <<>>

\* run k is still in the marking loop of the sendMail call j
Marking(k, j) == runs[k].pc = "mark" /\ runs[k].ob = j

\* the licenses of the sends of run k, among the first n sendMail calls, that
\* sendLicenseExpirationEmail has reported as successful
RECURSIVE Reported(_, _)
Reported(k, n) ==
    IF n = 0 THEN 0
    ELSE Reported(k, n - 1)
         + (IF outbox[n].run = k /\ outbox[n].accepted /\ ~Marking(k, n)
            THEN Len(outbox[n].items) ELSE 0)

\* C9: for an accepted email the marking is attempted for its licenses in
\* order, and for all of them once the marking loop is left, whatever
\* attempt failed; a successful attempt leaves notification_sent = true; the
\* send is reported as successful (its licenses are counted); a rejected
\* email has no marking attempt.
C9_MarkingIsBestEffort ==
    /\ \A j \in DOMAIN outbox :
          LET e == outbox[j]
          IN /\ Len(e.marks) <= Len(e.items)
             /\ \A i \in DOMAIN e.marks :
                   /\ e.marks[i].license = e.items[i].license
                   /\ e.marks[i].ok => licenses[e.marks[i].license].notification_sent
             /\ (e.accepted /\ ~Marking(e.run, j)) => Len(e.marks) = Len(e.items)
             /\ ~e.accepted => e.marks = <<>>
    /\ \A k \in DOMAIN runs : runs[k].count = Reported(k, Len(outbox))

\* the marking of the first license of an accepted email failed, the second
\* license was marked all the same, and the send was counted as successful
C9_Witness ==
    \E j \in DOMAIN outbox :
        /\ outbox[j].accepted
        /\ Len(outbox[j].marks) = 2
        /\ ~outbox[j].marks[1].ok
        /\ outbox[j].marks[2].ok
        /\ licenses[outbox[j].marks[2].license].notification_sent
        /\ ~licenses[outbox[j].marks[1].license].notification_sent
        /\ runs[outbox[j].run].count = 2

\* C10: a run that has handed an email to the transport returns normally,
\* and when it has returned, every digest of its grouping has been handed to
\* the transport, in the order of the grouping, whichever of them were
\* rejected.
C10_RejectionDoesNotStopRun ==
    \A k \in DOMAIN runs :
        (runs[k].pc = "done" /\ (Sent(k) # <<>> \/ runs[k].result = "ok")) =>
            /\ runs[k].result = "ok"
            /\ Len(Sent(k)) = Len(licensesByRecipient[k])
            /\ \A j \in DOMAIN Sent(k) :
                  /\ Sent(k)[j].to = licensesByRecipient[k][j].email
                  /\ Sent(k)[j].items = licensesByRecipient[k][j].licenses

\* a run has returned normally after the transport rejected its first digest
\* and accepted the digest of its second recipient
C10_Witness ==
    \E k \in DOMAIN runs :
        /\ runs[k].pc = "done"
        /\ runs[k].result = "ok"
        /\ Len(Sent(k)) = 2
        /\ ~Sent(k)[1].accepted
        /\ Sent(k)[2].accepted

\* the headings under which a message lists licenses that are not yet expired
ExpiringSoonHeadings == {"Expiring Soon", "expiring soon"}

PastSelect(k) == runs[k].pc # "select" /\ runs[k].result # "failed"

\* C12: whatever daysAhead >= 0 a call has, the rows getExpiringLicenses
\* returned contain every license with expiration_date before today that
\* passes the active-status filter (stated for the active licenses, which
\* pass the filter of every call, with includeInactive or without).
C12_ExpiredAlwaysSelected ==
    \A k \in DOMAIN runs :
        PastSelect(k) =>
            \A l \in DOMAIN licenses :
                (licenses[l].expiration_date < 0 /\ licenses[l].is_active)
                    => l \in Range(runs[k].expiring)

\* C13: the rows getExpiringLicenses returned contain no license whose
\* expiration_date is more than daysAhead days after today.
C13_NothingBeyondDaysAhead ==
    \A k \in DOMAIN runs :
        PastSelect(k) =>
            \A l \in Range(runs[k].expiring) :
                licenses[l].expiration_date <= runs[k].daysAhead

\* a call with daysAhead = 0 has returned the license expiring today and not
\* the active license expiring in 5 days
C13_Witness ==
    \E k \in DOMAIN runs :
        /\ PastSelect(k)
        /\ runs[k].daysAhead = 0
        /\ \E l \in Range(runs[k].expiring) : licenses[l].expiration_date = 0
        /\ \E l \in DOMAIN licenses \ Range(runs[k].expiring) :
              licenses[l].expiration_date = 5 /\ licenses[l].is_active

\* C14: a call with includeInactive = false gets no inactive license from
\* getExpiringLicenses, and no message of that run lists one.
C14_InactiveFilteredOut ==
    \A k \in DOMAIN runs :
        (PastSelect(k) /\ ~runs[k].includeInactive) =>
            /\ \A l \in Range(runs[k].expiring) : licenses[l].is_active
            /\ \A j \in DOMAIN outbox :
                  outbox[j].run = k => \A l \in ItemLicenses(outbox[j]) : licenses[l].is_active

\* the second variant's call with includeInactive = false has sent a message
\* with the active license, while an inactive license of the same window
\* (expired 3 days ago) was left out
C14_Witness ==
    \E k \in DOMAIN runs :
        /\ variant = "part_011"
        /\ ~runs[k].includeInactive
        /\ runs[k].pc = "done"
        /\ Len(Sent(k)) = 1
        /\ \E l \in DOMAIN licenses \ ItemLicenses(Sent(k)[1]) :
              ~licenses[l].is_active /\ licenses[l].expiration_date = -3

\* license l expires inside the window of a call: today or up to daysAhead
\* days after today
InWindow(l, daysAhead) ==
    licenses[l].expiration_date >= 0 /\ licenses[l].expiration_date <= daysAhead

\* C15: a call with includeInactive = true gets from getExpiringLicenses
\* every inactive license that expires inside the window.
C15_InactiveIncludedOnRequest ==
    \A k \in DOMAIN runs :
        (PastSelect(k) /\ runs[k].includeInactive) =>
            \A l \in DOMAIN licenses :
                (~licenses[l].is_active /\ InWindow(l, runs[k].daysAhead))
                    => l \in Range(runs[k].expiring)

\* C18: in every message, a license expiring today is listed with
\* daysUntilExpiry = 0 and a license expired 3 days ago with -3, at whatever
\* time of day the run computed it.
C18_DaysUntilExpiryOfDates ==
    \A j \in DOMAIN outbox :
        \A i \in DOMAIN outbox[j].items :
            LET x == outbox[j].items[i]
            IN /\ licenses[x.license].expiration_date = 0 => x.daysUntilExpiry = 0
               /\ licenses[x.license].expiration_date = -3 => x.daysUntilExpiry = -3

\* a run later than midnight has sent a message that lists a license
\* expiring today and a license expired 3 days ago
C18_Witness ==
    /\ tod > 0
    /\ \E j \in DOMAIN outbox :
          /\ \E i \in DOMAIN outbox[j].items :
                /\ licenses[outbox[j].items[i].license].expiration_date = 0
                /\ outbox[j].items[i].daysUntilExpiry = 0
          /\ \E i \in DOMAIN outbox[j].items :
                /\ licenses[outbox[j].items[i].license].expiration_date = -3
                /\ outbox[j].items[i].daysUntilExpiry = -3

\* the recipient the stated order gives for a run with user id u
StatedRecipient(u) ==
    IF u = NoUser THEN adminEmail
    ELSE IF u \in DOMAIN settings
         THEN (IF settings[u].email_address # "" THEN settings[u].email_address
               ELSE users[u].email)
         ELSE users[u].email

Unresolvable(u) ==
    /\ u # NoUser
    /\ u \notin DOMAIN settings
    /\ (u \notin DOMAIN users \/ users[u].email = "")

\* C17: in a run for a user id for which no address can be resolved, every
\* license is skipped: it is put in no digest and nothing is sent (no
\* database call having failed).
C17_UnresolvableIsSkipped ==
    \A k \in DOMAIN runs :
        (faults = 0 /\ Unresolvable(runs[k].userId)) =>
            /\ runs[k].resolved = {}
            /\ licensesByRecipient[k] = <<>>
            /\ Sent(k) = <<>>

\* C20: a step of the pipeline leaves users and settings as they are, adds
\* and removes no license, and changes of a license nothing but
\* notification_sent and updated_at, and those only for a license listed in
\* a message the transport has accepted; the step in which
\* getExpiringLicenses returns changes no row at all.
C20_PipelineWritesOnlyTheFlag ==
    [][/\ users' = users
       /\ settings' = settings
       /\ DOMAIN licenses' = DOMAIN licenses
       /\ \A l \in DOMAIN licenses :
             /\ licenses'[l].expiration_date = licenses[l].expiration_date
             /\ licenses'[l].is_active = licenses[l].is_active
             /\ licenses'[l] # licenses[l] =>
                   \E j \in DOMAIN outbox : outbox[j].accepted /\ l \in ItemLicenses(outbox[j])
       /\ (\E k \in DOMAIN runs : runs[k].pc = "select" /\ runs'[k] # runs[k])
             => licenses' = licenses]_vars

\* of two messages of one run the first was rejected and the second
\* accepted: the license of the second is marked, with a new updated_at, and
\* the license of the first is as it was
C20_Witness ==
    \E i, j \in DOMAIN outbox :
        /\ outbox[i].run = outbox[j].run
        /\ ~outbox[i].accepted
        /\ outbox[j].accepted
        /\ \E a \in ItemLicenses(outbox[i]) :
              ~licenses[a].notification_sent /\ licenses[a].updated_at < 0
        /\ \E b \in ItemLicenses(outbox[j]) :
              licenses[b].notification_sent /\ licenses[b].updated_at = tod

\* C19: getExpiringLicenses does not look at notification_sent. Two calls
\* with the same arguments get the same rows, whatever was marked in
\* between, and a run that has returned has listed every selected license
\* in a message, the already notified ones included.
C19_NotifiedAreSelectedAgain ==
    \A k \in DOMAIN runs :
        PastSelect(k) =>
            /\ \A j \in DOMAIN runs :
                  (PastSelect(j) /\ runs[j].daysAhead = runs[k].daysAhead
                   /\ runs[j].includeInactive = runs[k].includeInactive)
                      => runs[j].expiring = runs[k].expiring
            /\ runs[k].pc = "done" =>
                  \A l \in Range(runs[k].expiring) :
                      \E j \in DOMAIN outbox : outbox[j].run = k /\ l \in ItemLicenses(outbox[j])

\* a run selected a license that an earlier run had marked as notified, and
\* has listed it in its own message
C19_Witness ==
    \E k \in DOMAIN runs, j \in DOMAIN outbox :
        /\ outbox[j].run = k
        /\ \E l \in runs[k].sentBefore :
              /\ l \in ItemLicenses(outbox[j])
              /\ \E i \in DOMAIN outbox :
                    /\ outbox[i].run # k
                    /\ \E m \in DOMAIN outbox[i].marks :
                          outbox[i].marks[m].license = l /\ outbox[i].marks[m].ok

\* C28: notification_sent is set on a license only after the transport
\* accepted a message that lists that license and the update of that license
\* succeeded. A message the transport rejected has marked nothing, so the
\* licenses of a failed send, and the licenses that were skipped for want of
\* a recipient, keep their flag unless an accepted message lists them.
C28_FlagOnlyAfterAcceptedSend ==
    /\ \A l \in DOMAIN licenses :
          licenses[l].notification_sent =>
              \E j \in DOMAIN outbox :
                  /\ outbox[j].accepted
                  /\ l \in ItemLicenses(outbox[j])
                  /\ \E m \in DOMAIN outbox[j].marks :
                        outbox[j].marks[m] = [license |-> l, ok |-> TRUE]
    /\ \A j \in DOMAIN outbox : ~outbox[j].accepted => outbox[j].marks = <<>>

\* one run has returned after its only message was rejected, another run has
\* returned after skipping every license, and no license is flagged
C28_Witness ==
    /\ \E j \in DOMAIN outbox :
          /\ ~outbox[j].accepted
          /\ runs[outbox[j].run].pc = "done"
          /\ \A i \in DOMAIN outbox : outbox[i].run = outbox[j].run => i = j
    /\ \E k \in DOMAIN runs : runs[k].pc = "done" /\ runs[k].skipped # {}
    /\ \A l \in DOMAIN licenses : ~licenses[l].notification_sent

\* the rows of a message body from top to bottom
Listed(html) ==
    IF Len(html) = 0 THEN <<>>
    ELSE IF Len(html) = 1 THEN html[1].rows
    ELSE html[1].rows \o html[2].rows

\* days until expiry of the item of message e that is about license l
DaysOf(e, l) ==
    LET i == CHOOSE i \in DOMAIN e.items : e.items[i].license = l
    IN e.items[i].daysUntilExpiry

\* C25: when a run resolved two licenses to the same recipient and has
\* returned, exactly one message of that run went to that recipient, it
\* lists both licenses, and from top to bottom its rows are in ascending
\* days until expiry (the license expiring in 1 day above the one expiring
\* in 5 days).
C25_OneDigestSoonestFirst ==
    \A k \in DOMAIN runs :
        runs[k].pc = "done" =>
            \A p, q \in runs[k].resolved :
                (p[2] = q[2] /\ p[1] # q[1]) =>
                    /\ Cardinality({j \in DOMAIN outbox :
                                       outbox[j].run = k /\ outbox[j].to = p[2]}) = 1
                    /\ \A j \in DOMAIN outbox :
                          (outbox[j].run = k /\ outbox[j].to = p[2]) =>
                              LET rows == Listed(outbox[j].html)
                              IN /\ {p[1], q[1]} \subseteq {rows[i].license : i \in DOMAIN rows}
                                 /\ Len(rows) = Len(outbox[j].items)
                                 /\ \A a, b \in DOMAIN rows :
                                       a < b => DaysOf(outbox[j], rows[a].license)
                                                   <= DaysOf(outbox[j], rows[b].license)

\* a returned run sent one accepted message with two rows: the license that
\* expires in 1 day above the license that expires in 5 days
C25_Witness ==
    \E j \in DOMAIN outbox :
        LET rows == Listed(outbox[j].html)
        IN /\ outbox[j].accepted
           /\ runs[outbox[j].run].pc = "done"
           /\ Len(rows) = 2
           /\ DaysOf(outbox[j], rows[1].license) = 1 /\ rows[1].days = 1
           /\ DaysOf(outbox[j], rows[2].license) = 5 /\ rows[2].days = 5

\* C21: when transporter.sendMail rejects, what sendLicenseExpirationEmail
\* throws to its caller is the error built in its catch: an Error whose
\* message is 'Failed to send email: ' followed by the message of the
\* transport's error, with that error as originalError and the address as
\* recipient.
C21_RejectionThrowsTypedError ==
    \A j \in DOMAIN outbox :
        ~outbox[j].accepted =>
            /\ Len(outbox[j].cause) = 1
            /\ Len(outbox[j].thrown) = 1
            /\ LET e == outbox[j].thrown[1]
                   c == outbox[j].cause[1]
               IN /\ e.name = "Error"
                  /\ DOMAIN e = {"name", "message", "originalError", "licenseId", "recipient"}
                  /\ e.originalError = c
                  /\ e.recipient = outbox[j].to
                  /\ e.message = <<"Failed to send email: ">> \o c.message

\* the address the test email of user u is due to: the email_address of the
\* user's settings row, otherwise the login email
TestAddress(u) ==
    IF u \in DOMAIN settings /\ Truthy(settings[u].email_address)
    THEN settings[u].email_address
    ELSE users[u].email

\* C22: a test-email request of an existing user with a resolvable address,
\* served while the transport works and the database answers, ends with the
\* success answer after exactly one message was handed to the transport:
\* addressed to the resolved address, with one (synthetic) license.
C22_TestEmailSendsOneMessage ==
    \A t \in DOMAIN tests :
        (/\ tests[t].pc = "done"
         /\ faults = 0
         /\ tests[t].user \in DOMAIN users
         /\ Truthy(TestAddress(tests[t].user))
         /\ tests[t].transport = "ok")
            => /\ tests[t].status = 200
               /\ tests[t].success
               /\ Cardinality({j \in DOMAIN outbox : outbox[j].test = t}) = 1
               /\ \A j \in DOMAIN outbox :
                     outbox[j].test = t =>
                         /\ outbox[j].to = TestAddress(tests[t].user)
                         /\ outbox[j].accepted
                         /\ Len(Listed(outbox[j].html)) = 1

\* why a test-email request of an existing user fails
TestFailureCause(t) ==
    IF ~Truthy(TestAddress(tests[t].user)) THEN "No recipient" ELSE tests[t].transport

\* C23: two answered test-email requests that failed for different causes
\* (the transport rejects with 'Invalid login', the transport rejects with
\* 'Connection timeout', the user has no address) carry different error
\* messages.
C23_EachCauseItsOwnMessage ==
    \A s, t \in DOMAIN tests :
        (/\ tests[s].pc = "done" /\ tests[t].pc = "done"
         /\ faults = 0
         /\ tests[s].user \in DOMAIN users /\ tests[t].user \in DOMAIN users
         /\ TestFailureCause(s) # "ok" /\ TestFailureCause(t) # "ok"
         /\ TestFailureCause(s) # TestFailureCause(t))
            => /\ tests[s].status >= 400 /\ tests[t].status >= 400
               /\ tests[s].error # tests[t].error

\* the sections of a message body under which license l has a row
SectionsOf(html, l) ==
    {s \in DOMAIN html : \E i \in DOMAIN html[s].rows : html[s].rows[i].license = l}

ExpiredHeadings == {"Expired Licenses"}

\* C24: in every message handed to the transport, each item has exactly one
\* row; the row of an item with a negative number of days until expiry is
\* in the section headed Expired, the row of an item with 0 days or more in
\* the section headed Expiring Soon; and no section is without rows.
C24_TwoSectionsBySign ==
    \A j \in DOMAIN outbox :
        LET html == outbox[j].html
            items == outbox[j].items
        IN /\ Len(Listed(html)) = Len(items)
           /\ \A s \in DOMAIN html : Len(html[s].rows) > 0
           /\ \A i \in DOMAIN items :
                 LET in == SectionsOf(html, items[i].license)
                 IN /\ Cardinality(in) = 1
                    /\ \A s \in in :
                          IF items[i].daysUntilExpiry < 0
                          THEN html[s].heading \in ExpiredHeadings
                          ELSE html[s].heading \in ExpiringSoonHeadings

\* part_011 has sent a message with both sections, one row each: the
\* license expired 2 days ago under Expired, the other under Expiring Soon
C24_Witness ==
    \E j \in DOMAIN outbox :
        LET html == outbox[j].html
        IN /\ variant = "part_011"
           /\ outbox[j].accepted
           /\ Len(html) = 2
           /\ html[1].heading \in ExpiredHeadings
           /\ Len(html[1].rows) = 1 /\ html[1].rows[1].days = 2
           /\ html[2].heading \in ExpiringSoonHeadings
           /\ Len(html[2].rows) = 1

\* C26: user_notification_settings never holds more than one row of a user
\* id, whatever PUT requests were served and however they interleaved: a
\* user with a stored row has exactly one.
C26_OneSettingsRowPerUser ==
    \A u \in UserIds :
        /\ settingsCount[u] <= 1
        /\ u \in DOMAIN settings <=> settingsCount[u] = 1

\* two first-time requests of one user both found no row; the first has
\* inserted and goes on, the second was answered 500 for its duplicate key
\* (no database failure was injected), and the user has one row
C26_Witness ==
    \E a, b \in DOMAIN reqs :
        /\ a # b
        /\ reqs[a].user = reqs[b].user
        /\ reqs[a].user \in UserIds
        /\ reqs[a].pc \in {"refresh", "apply", "done"}
        /\ lastStore[reqs[a].user] = a
        /\ ~reqs[a].existing
        /\ reqs[b].pc = "done" /\ reqs[b].status = 500
        /\ faults = 0
        /\ settingsCount[reqs[a].user] = 1

\* a call that concerns user u has completed: a request of u that stored
\* the current row and was answered 200, or an initScheduler call
CompletedFor(u) ==
    \/ \E r \in 1..MaxReq : Settled(r) /\ reqs[r].user = u
    \/ \E i \in 1..MaxInit : inits[i].pc = "done"

\* C27: when every updateUserSchedule and initScheduler call that was begun
\* has completed (no database call having failed), then, however the calls
\* overlapped, each user they concern has a running task if and only if the
\* stored row has send_to_email true, and a running task of the user fires
\* at the stored time with the stored days_before_expiration and
\* include_inactive.
C27_OverlappingCallsConverge ==
    \A u \in UserIds :
        (faults = 0 /\ Quiescent /\ CompletedFor(u)) =>
            /\ RunningTasksOf(u) # {} <=> (u \in DOMAIN settings /\ settings[u].send_to_email)
            /\ \A t \in RunningTasksOf(u) : MatchesStored(t, u)

\* C30: a GET /notifications whose query ran after a PUT of the same user
\* had stored the row and been answered 200 returns that row's values:
\* days_before_expiration, the hour and minute of notification_time,
\* send_to_email (false reads back as false), email_address and
\* include_inactive (stated for behaviours without a database failure).
C30_GetReturnsStoredValues ==
    \A g \in DOMAIN gets :
        (faults = 0 /\ gets[g].pc = "done" /\ gets[g].status = 200 /\ gets[g].after # 0) =>
            LET row == gets[g].stored[1]
                body == gets[g].body
            IN /\ body.daysBeforeExpiration = row.days_before_expiration
               /\ body.notificationTime.h = row.notification_time.h
               /\ body.notificationTime.m = row.notification_time.m
               /\ body.sendToEmail = row.send_to_email
               /\ body.emailAddress = row.email_address
               /\ body.includeInactive = row.include_inactive

RunningJobs == {j \in DOMAIN cronJobs : cronJobs[j].running}

\* C29: at any time at most one cron job that NotificationJob.start has
\* scheduled is running, and a running job is the one this.job holds, so
\* that stop() stops it: no job is left running that stop() cannot reach.
C29_OneJobThatStopReaches ==
    /\ Cardinality(RunningJobs) <= 1
    /\ \A j \in RunningJobs : notificationJob.job = j

====
